---- MODULE Spec2Model ----
(***************************************************************************)
(* A model of proxy-manager.py: the registry document (containers and      *)
(* routes) kept in proxy-config.json, and the proxy container, its image   *)
(* and the networks of the container runtime.  Every command of the CLI    *)
(* is one action; a command runs to completion in its own process.         *)
(***************************************************************************)
EXTENDS Integers, Sequences, FiniteSets, TLC

VARIABLES
    fileExists,  \* CONFIG_FILE.exists()
    file,        \* the document stored in CONFIG_FILE
    proxy,       \* the container named proxy_name, as the runtime holds it
    image,       \* the image tagged <proxy_name>:latest
    networks,    \* the names of the runtime's networks
    written,     \* the text of CONFIG_FILE on disk, relative to the document in file
    procs,       \* the invocations that have not run to completion: position, locals
    switched,    \* history: per host port, the container the last switch resolved
    switchedOk   \* history: the same, of the last switch that returned success

vars == <<fileExists, file, proxy, image, networks, written, procs, switched, switchedOk>>

-----------------------------------------------------------------------------
(* Bounds of the model *)

NumHostPorts == 2

(* Program constants *)

DEFAULT_PORT == 8000

None == "None"

DEFAULT_CONFIG ==
    [containers |-> <<>>, routes |-> <<>>,
     proxy_name |-> "proxy-manager", network |-> "proxy-net"]

-----------------------------------------------------------------------------
(* The inputs the commands are given *)

Names == {"c1", "c2"}
\* a label is an alias; the one label of the model is also the name of a container
Labels == {"c1"}
Identifiers == Names \cup Labels
HostPorts == {DEFAULT_PORT + i : i \in 0..(NumHostPorts - 1)}
\* the port argument of switch: 0 is the argument left out, which means DEFAULT_PORT
SwitchPorts == (HostPorts \ {DEFAULT_PORT}) \cup {0}
\* the --port argument of add: the commands here leave it out
InternalPorts == {}
OtherNetworks == {"app-net"}
AllNetworks == {DEFAULT_CONFIG.network} \cup OtherNetworks

\* the orders in which a Python set of network names may be iterated
OrdersOf(nets) ==
    {s \in [1..Cardinality(nets) -> nets] : \A i, j \in DOMAIN s : s[i] = s[j] => i = j}

-----------------------------------------------------------------------------
(* The world a command acts on *)

\* the text on disk is the whole text of the document: nothing follows it, and
\* the file is not truncated
Whole == [empty |-> FALSE, tail |-> 0]
NoProcs == <<>>

AbsentProxy == [state |-> "Absent", conf |-> <<>>, ports |-> {}, nets |-> {}]
NoImage == [built |-> FALSE, conf |-> <<>>, expose |-> <<>>]

World ==
    [fileExists |-> fileExists, file |-> file, proxy |-> proxy, image |-> image,
     networks |-> networks, events |-> <<>>]

Event(op, arg) == [op |-> op, arg |-> arg]
Emit(w, op, arg) == [w EXCEPT !.events = Append(@, Event(op, arg))]

Result(w, ret) == [w |-> w, ret |-> ret]

-----------------------------------------------------------------------------
(* Registry store *)

\* a document that lacks containers or routes gets an empty list for it
back_filled(document) ==
    IF {"containers", "routes"} \subseteq DOMAIN document THEN document
    ELSE [f \in DOMAIN document \cup {"containers", "routes"} |->
            IF f \in DOMAIN document THEN document[f] ELSE <<>>]

\* load_config in a process whose DEFAULT_CONFIG holds the lists of `defaults`:
\* DEFAULT_CONFIG.copy() is a new dict with the same two list objects
load_config_from(defaults, w) ==
    IF w.fileExists THEN back_filled(w.file) ELSE defaults

\* load_config in a command of main(): a process that starts, loads the module and
\* saves before it loads again
load_config(w) == load_config_from(DEFAULT_CONFIG, w)

save_config(w, config) == [w EXCEPT !.fileExists = TRUE, !.file = config]

get_proxy_name(config) == config.proxy_name
get_proxy_image(config) == <<get_proxy_name(config), "latest">>
get_network_name(config) == config.network

get_internal_port_default(target_container) == DEFAULT_PORT

get_internal_port(target_container) ==
    IF target_container.port # 0 THEN target_container.port ELSE DEFAULT_PORT

get_all_host_ports(config) ==
    IF config.routes # <<>>
    THEN [i \in DOMAIN config.routes |-> config.routes[i].host_port]
    ELSE <<DEFAULT_PORT>>

\* Python's next(generator, None) over a list: the least of the indices that
\* match, 0 (None) when none does
First(matching) ==
    IF matching = {} THEN 0 ELSE CHOOSE i \in matching : \A j \in matching : i <= j

find_container(config, identifier) ==
    First({i \in DOMAIN config.containers :
            \/ config.containers[i].name = identifier
            \/ config.containers[i].label = identifier})

find_route(config, host_port) ==
    First({i \in DOMAIN config.routes : config.routes[i].host_port = host_port})

-----------------------------------------------------------------------------
(* Registry operations *)

\* get_container_network is the runtime's answer, given as `detected`
resolve_network(network, detected) ==
    IF network = None /\ detected # None THEN detected ELSE network

update_entry(existing, label, port, network) ==
    [existing EXCEPT
        !.label = IF label # None THEN label ELSE @,
        !.port = IF port # 0 THEN port ELSE @,
        !.network = IF network # None THEN network ELSE @]

new_entry(container_name, label, port, network) ==
    [name |-> container_name, label |-> label, port |-> port, network |-> network]

upsert_always_appends(config, container_name, label, port, network) ==
    [config EXCEPT
        !.containers = Append(@, new_entry(container_name, label, port, network))]

upsert_container(config, container_name, label, port, network) ==
    LET existing ==
            First({i \in DOMAIN config.containers :
                    config.containers[i].name = container_name})
    IN  IF existing # 0
        THEN [config EXCEPT
                !.containers[existing] = update_entry(@, label, port, network)]
        ELSE [config EXCEPT
                !.containers = Append(@, new_entry(container_name, label, port, network))]

\* add_container that creates the network of the entry it registers
add_container_ensures_network(w, container_name, label, port, network, detected) ==
    LET config == load_config(w)
        w1 == IF network = None THEN Emit(w, "container_inspect", container_name) ELSE w
        net == resolve_network(network, detected)
        w2 == IF net # None /\ net \notin w1.networks
              THEN Emit([w1 EXCEPT !.networks = @ \cup {net}], "network_create", net)
              ELSE w1
    IN  Result(save_config(w2, upsert_container(config, container_name, label, port, net)),
               TRUE)

add_container(w, container_name, label, port, network, detected) ==
    LET config == load_config(w)
        w1 == IF network = None THEN Emit(w, "container_inspect", container_name) ELSE w
        net == resolve_network(network, detected)
    IN  Result(save_config(w1, upsert_container(config, container_name, label, port, net)),
               TRUE)

without_container(containers, name) ==
    LET Keep(c) == c.name # name IN SelectSeq(containers, Keep)

routes_kept(routes, name) == routes

without_routes_to(routes, name) ==
    LET Keep(r) == r.target # name IN SelectSeq(routes, Keep)

remove_container_by_identifier(w, identifier) ==
    LET config == load_config(w)
        container == find_container(config, identifier)
    IN  IF container = 0
        THEN Result(w, FALSE)
        ELSE Result(save_config(w,
                     [config EXCEPT
                        !.containers = without_container(@, identifier),
                        !.routes = without_routes_to(@, identifier)]),
                   TRUE)

remove_container(w, identifier) ==
    LET config == load_config(w)
        container == find_container(config, identifier)
    IN  IF container = 0
        THEN Result(w, FALSE)
        ELSE LET name == config.containers[container].name
             IN  Result(save_config(w,
                     [config EXCEPT
                        !.containers = without_container(@, name),
                        !.routes = without_routes_to(@, name)]),
                   TRUE)

-----------------------------------------------------------------------------
(* Config generator and image builder *)

\* one server block of nginx.conf: its listen port and its $backend_addr
server_block(route, target_container) ==
    [listen |-> route.host_port,
     backend |-> <<route.target, get_internal_port(target_container)>>]

RECURSIVE generate_from(_, _)
generate_from(config, i) ==
    IF i > Len(config.routes) THEN <<>>
    ELSE LET route == config.routes[i]
             target_container ==
                 First({j \in DOMAIN config.containers :
                         config.containers[j].name = route.target})
         IN  IF target_container = 0
             THEN generate_from(config, i + 1)
             ELSE <<server_block(route, config.containers[target_container])>>
                  \o generate_from(config, i + 1)

generate_nginx_config(config) == generate_from(config, 1)

build_proxy_ignores_failure(w, env) ==
    LET config == load_config(w)
    IN  IF config.containers = <<>>
        THEN Result(w, FALSE)
        ELSE IF env.buildOk
        THEN Result(Emit([w EXCEPT !.image =
                            [built |-> TRUE,
                             conf |-> generate_nginx_config(config),
                             expose |-> get_all_host_ports(config)]],
                         "image_build", get_proxy_name(config)),
                    TRUE)
        ELSE Result(Emit(w, "image_build_failed", get_proxy_name(config)), TRUE)

\* build_proxy whose generator keeps the server blocks of the build before
build_proxy_accumulates(w, env) ==
    LET config == load_config(w)
    IN  IF config.containers = <<>>
        THEN Result(w, FALSE)
        ELSE IF env.buildOk
        THEN Result(Emit([w EXCEPT !.image =
                            [built |-> TRUE,
                             conf |-> w.image.conf \o generate_nginx_config(config),
                             expose |-> get_all_host_ports(config)]],
                         "image_build", get_proxy_name(config)),
                    TRUE)
        ELSE Result(Emit(w, "image_build_failed", get_proxy_name(config)), FALSE)

build_proxy(w, env) ==
    LET config == load_config(w)
    IN  IF config.containers = <<>>
        THEN Result(w, FALSE)
        ELSE IF env.buildOk
        THEN Result(Emit([w EXCEPT !.image =
                            [built |-> TRUE,
                             conf |-> generate_nginx_config(config),
                             expose |-> get_all_host_ports(config)]],
                         "image_build", get_proxy_name(config)),
                    TRUE)
        ELSE Result(Emit(w, "image_build_failed", get_proxy_name(config)), FALSE)

-----------------------------------------------------------------------------
(* Network reconciler and lifecycle controller *)

ensure_network(w, network_name) ==
    IF network_name \notin w.networks
    THEN Emit([w EXCEPT !.networks = @ \cup {network_name}],
              "network_create", network_name)
    ELSE w

\* the networks start_proxy collects: the default one and every entry's
referenced_networks(config) ==
    {get_network_name(config)} \cup
    {config.containers[i].network : i \in
        {j \in DOMAIN config.containers : config.containers[j].network # None}}

\* a set of networks in the order the command iterates it
InOrder(nets, order) ==
    LET In(n) == n \in nets IN SelectSeq(order, In)

RECURSIVE ensure_all(_, _, _)
ensure_all(w, seq, i) ==
    IF i > Len(seq) THEN w ELSE ensure_all(ensure_network(w, seq[i]), seq, i + 1)

connect_network(w, network, env) ==
    IF network \in env.connectFail \/ network \notin w.networks
    THEN Emit(w, "network_connect_failed", network)
    ELSE Emit([w EXCEPT !.proxy.nets = @ \cup {network}], "network_connect", network)

\* connect_all that gives up at the first network it cannot connect
RECURSIVE connect_until_failure(_, _, _, _, _)
connect_until_failure(w, seq, i, default_network, env) ==
    IF i > Len(seq) THEN w
    ELSE IF seq[i] = default_network
    THEN connect_until_failure(w, seq, i + 1, default_network, env)
    ELSE IF seq[i] \in env.connectFail
    THEN connect_network(w, seq[i], env)
    ELSE connect_until_failure(connect_network(w, seq[i], env),
                               seq, i + 1, default_network, env)

RECURSIVE connect_all(_, _, _, _, _)
connect_all(w, seq, i, default_network, env) ==
    IF i > Len(seq) THEN w
    ELSE connect_all(IF seq[i] # default_network
                     THEN connect_network(w, seq[i], env) ELSE w,
                     seq, i + 1, default_network, env)

run_container(w, config, host_ports) ==
    Emit([w EXCEPT !.proxy =
            [state |-> "Running",
             conf |-> w.image.conf,
             ports |-> {host_ports[i] : i \in DOMAIN host_ports},
             nets |-> {get_network_name(config)}]],
         "container_run", get_proxy_name(config))

config_incomplete(config) == config.containers = <<>> \/ config.routes = <<>>

\* start_proxy with the image built before the proxy is looked up
start_proxy_builds_first(w, env) ==
    LET config == load_config(w)
        default_network == get_network_name(config)
        nets == InOrder(referenced_networks(config), env.order)
    IN  IF config_incomplete(config)
        THEN Result(w, FALSE)
        ELSE LET b == build_proxy(ensure_all(w, nets, 1), env)
                 w1 == Emit(b.w, "container_get", get_proxy_name(config))
             IN  IF w1.proxy.state # "Absent"
                 THEN Result(w1, TRUE)
                 ELSE IF ~b.ret
                 THEN Result(w1, FALSE)
                 ELSE LET w2 == run_container(w1, config, get_all_host_ports(config))
                          w3 == Emit(w2, "container_get", get_proxy_name(config))
                      IN  Result(connect_all(w3, nets, 1, default_network, env), TRUE)

\* start_proxy with the networks ensured before the Model is looked at
start_proxy_checks_late(w, env) ==
    LET config == load_config(w)
        default_network == get_network_name(config)
        nets == InOrder(referenced_networks(config), env.order)
        w0 == ensure_all(w, nets, 1)
    IN  IF config_incomplete(config)
        THEN Result(w0, FALSE)
        ELSE LET w1 == Emit(w0, "container_get", get_proxy_name(config))
             IN  IF w1.proxy.state # "Absent"
                 THEN Result(w1, TRUE)
                 ELSE LET b == build_proxy(w1, env)
                      IN  IF ~b.ret
                          THEN Result(b.w, FALSE)
                          ELSE LET w2 == run_container(b.w, config, get_all_host_ports(config))
                                   w3 == Emit(w2, "container_get", get_proxy_name(config))
                               IN  Result(connect_all(w3, nets, 1, default_network, env),
                                          TRUE)

\* start_proxy that ensures the networks after it has built the image
start_proxy_ensures_late(w, env) ==
    LET config == load_config(w)
        default_network == get_network_name(config)
        nets == InOrder(referenced_networks(config), env.order)
    IN  IF config_incomplete(config)
        THEN Result(w, FALSE)
        ELSE LET w1 == Emit(w, "container_get", get_proxy_name(config))
             IN  IF w1.proxy.state # "Absent"
                 THEN Result(w1, TRUE)
                 ELSE LET b == build_proxy(w1, env)
                      IN  IF ~b.ret
                          THEN Result(b.w, FALSE)
                          ELSE LET w2 == run_container(ensure_all(b.w, nets, 1), config,
                                                       get_all_host_ports(config))
                                   w3 == Emit(w2, "container_get", get_proxy_name(config))
                               IN  Result(connect_all(w3, nets, 1, default_network, env),
                                          TRUE)

start_proxy(w, env) ==
    LET config == load_config(w)
        default_network == get_network_name(config)
        nets == InOrder(referenced_networks(config), env.order)
    IN  IF config_incomplete(config)
        THEN Result(w, FALSE)
        ELSE LET w1 == Emit(ensure_all(w, nets, 1), "container_get", get_proxy_name(config))
             IN  IF w1.proxy.state # "Absent"
                 THEN Result(w1, TRUE)
                 ELSE LET b == build_proxy(w1, env)
                      IN  IF ~b.ret
                          THEN Result(b.w, FALSE)
                          ELSE LET w2 == run_container(b.w, config, get_all_host_ports(config))
                                   w3 == Emit(w2, "container_get", get_proxy_name(config))
                               IN  Result(connect_all(w3, nets, 1, default_network, env),
                                          TRUE)

\* stop_proxy that stops the container and leaves it in place
stop_proxy_keeps_container(w) ==
    LET proxy_name == get_proxy_name(load_config(w))
        w1 == Emit(w, "container_get", proxy_name)
    IN  IF w1.proxy.state # "Absent"
        THEN Result(Emit([w1 EXCEPT !.proxy.state = "Stopped"],
                         "container_stop", proxy_name),
                    TRUE)
        ELSE Result(w1, FALSE)

stop_proxy(w) ==
    LET proxy_name == get_proxy_name(load_config(w))
        w1 == Emit(w, "container_get", proxy_name)
    IN  IF w1.proxy.state # "Absent"
        THEN Result(Emit(Emit([w1 EXCEPT !.proxy = AbsentProxy],
                              "container_stop", proxy_name),
                         "container_remove", proxy_name),
                    TRUE)
        ELSE Result(w1, FALSE)

\* the restart command of main(): stop, sleep, start
restart_proxy(w, env) == start_proxy(stop_proxy(w).w, env)

reload_proxy_unchecked(w, env) == start_proxy(stop_proxy(w).w, env)

\* reload_proxy that starts the proxy without stopping the one that runs
reload_proxy_keeps_running(w, env) ==
    LET config == load_config(w)
    IN  IF config_incomplete(config)
        THEN Result(w, FALSE)
        ELSE start_proxy(w, env)

reload_proxy(w, env) ==
    LET config == load_config(w)
    IN  IF config_incomplete(config)
        THEN Result(w, FALSE)
        ELSE start_proxy(stop_proxy(w).w, env)

without_route(routes, host_port) ==
    LET Keep(r) == r.host_port # host_port IN SelectSeq(routes, Keep)

stop_port_always_stops(w, host_port, env) ==
    LET config == load_config(w)
        route == find_route(config, host_port)
    IN  IF route = 0
        THEN Result(w, FALSE)
        ELSE stop_proxy(save_config(w, [config EXCEPT !.routes = without_route(@, host_port)]))

stop_port(w, host_port, env) ==
    LET config == load_config(w)
        route == find_route(config, host_port)
    IN  IF route = 0
        THEN Result(w, FALSE)
        ELSE LET config1 == [config EXCEPT !.routes = without_route(@, host_port)]
                 w1 == save_config(w, config1)
             IN  IF config1.routes # <<>>
                 THEN reload_proxy(w1, env)
                 ELSE stop_proxy(w1)

\* list.sort(key=host_port): a stable insertion sort
RECURSIVE insert_route(_, _)
insert_route(sorted, r) ==
    IF sorted = <<>> THEN <<r>>
    ELSE IF sorted[Len(sorted)].host_port <= r.host_port
    THEN Append(sorted, r)
    ELSE Append(insert_route(SubSeq(sorted, 1, Len(sorted) - 1), r), sorted[Len(sorted)])

RECURSIVE sort_from(_, _, _)
sort_from(sorted, routes, i) ==
    IF i > Len(routes) THEN sorted
    ELSE sort_from(insert_route(sorted, routes[i]), routes, i + 1)

routes_unsorted(routes) == routes

sort_routes(routes) == sort_from(<<>>, routes, 1)

set_route_appends(config, host_port, name) ==
    [config EXCEPT
        !.routes = sort_routes(Append(@, [host_port |-> host_port, target |-> name]))]

set_route(config, host_port, name) ==
    LET existing_route == find_route(config, host_port)
    IN  IF existing_route # 0
        THEN [config EXCEPT !.routes[existing_route].target = name]
        ELSE [config EXCEPT
                !.routes = sort_routes(Append(@, [host_port |-> host_port, target |-> name]))]

\* switch_target that reloads the proxy also when the identifier is not found
switch_target_reloads_anyway(w, identifier, host_port, env) ==
    LET config == load_config(w)
        container == find_container(config, identifier)
        port == IF host_port = 0 THEN DEFAULT_PORT ELSE host_port
    IN  IF container = 0
        THEN [reload_proxy(w, env) EXCEPT !.ret = FALSE]
        ELSE reload_proxy(
                save_config(w, set_route(config, port, config.containers[container].name)),
                env)

\* host_port = 0 stands for the argument left out (None)
switch_target(w, identifier, host_port, env) ==
    LET config == load_config(w)
        container == find_container(config, identifier)
        port == IF host_port = 0 THEN DEFAULT_PORT ELSE host_port
    IN  IF container = 0
        THEN Result(w, FALSE)
        ELSE reload_proxy(
                save_config(w, set_route(config, port, config.containers[container].name)),
                env)

-----------------------------------------------------------------------------
(* The commands of main(), one action each *)

\* what the runtime may do to one command: whether images.build succeeds, which
\* net.connect calls raise, and the order in which the set of networks is iterated
Envs ==
    LET nets == referenced_networks(load_config(World))
    IN  [buildOk : BOOLEAN,
         connectFail : SUBSET (nets \ {DEFAULT_CONFIG.network}),
         order : OrdersOf(nets)]

\* The order of iteration shows in the sequence of a command's runtime calls and
\* not in the state the command leaves (OrderImmaterial): the actions take one
\* order, the properties of the commands are stated for every order.
Outcomes ==
    LET nets == referenced_networks(load_config(World))
    IN  {env \in Envs : env.order = CHOOSE o \in OrdersOf(nets) : TRUE}

Commit(r) ==
    /\ fileExists' = r.w.fileExists
    /\ file' = r.w.file
    /\ proxy' = r.w.proxy
    /\ image' = r.w.image
    /\ networks' = r.w.networks
    /\ UNCHANGED <<written, procs>>

Init ==
    /\ fileExists = FALSE
    /\ file = DEFAULT_CONFIG
    /\ proxy = AbsentProxy
    /\ image = NoImage
    /\ networks \in SUBSET AllNetworks
    /\ written = Whole
    /\ procs = NoProcs
    /\ switched = [p \in HostPorts |-> None]
    /\ switchedOk = [p \in HostPorts |-> None]

\* what get_container_network may answer; it is asked only when no network is given
Detected(network) == IF network = None THEN OtherNetworks \cup {None} ELSE {None}

Add ==
    \E container_name \in Names :
    \E label \in (Labels \ {container_name}) \cup {None},
       port \in InternalPorts \cup {0}, network \in OtherNetworks \cup {None} :
    \E detected \in Detected(network) :
        /\ Commit(add_container(World, container_name, label, port, network, detected))
        /\ UNCHANGED <<switched, switchedOk>>

Remove ==
    \E identifier \in Identifiers :
        /\ Commit(remove_container(World, identifier))
        /\ UNCHANGED <<switched, switchedOk>>

Switch ==
    \E identifier \in Identifiers, host_port \in SwitchPorts, env \in Outcomes :
        /\ Commit(switch_target(World, identifier, host_port, env))
        /\ UNCHANGED <<switched, switchedOk>>

StopPort ==
    \E host_port \in HostPorts, env \in Outcomes :
        /\ Commit(stop_port(World, host_port, env))
        /\ UNCHANGED <<switched, switchedOk>>

Start ==
    \E env \in Outcomes :
        /\ Commit(start_proxy(World, env))
        /\ UNCHANGED <<switched, switchedOk>>

Stop ==
    /\ Commit(stop_proxy(World))
    /\ UNCHANGED <<switched, switchedOk>>

Restart ==
    \E env \in Outcomes :
        /\ Commit(restart_proxy(World, env))
        /\ UNCHANGED <<switched, switchedOk>>

Reload ==
    \E env \in Outcomes :
        /\ Commit(reload_proxy(World, env))
        /\ UNCHANGED <<switched, switchedOk>>

Next == Add \/ Remove \/ Switch \/ StopPort \/ Start \/ Stop \/ Restart \/ Reload

Spec == Init /\ [][Next]_vars

-----------------------------------------------------------------------------
(* Sequences of switch commands on registered containers, with their history *)

\* add_container for a container on the default network
Register ==
    \E container_name \in Names :
    \E label \in (Labels \ {container_name}) \cup {None} :
        /\ Commit(add_container(World, container_name, label, 0, None, None))
        /\ UNCHANGED <<switched, switchedOk>>

SwitchRecorded ==
    \E identifier \in Identifiers, host_port \in SwitchPorts, env \in Outcomes :
        LET r == switch_target(World, identifier, host_port, env)
            config == load_config(World)
            container == find_container(config, identifier)
            port == IF host_port = 0 THEN DEFAULT_PORT ELSE host_port
        IN  /\ Commit(r)
            /\ switched' =
                    IF container = 0 THEN switched
                    ELSE [switched EXCEPT ![port] = config.containers[container].name]
            /\ switchedOk' =
                    IF container = 0 \/ ~r.ret THEN switchedOk
                    ELSE [switchedOk EXCEPT ![port] = config.containers[container].name]

NextSwitch == Register \/ SwitchRecorded

SpecSwitch == Init /\ [][NextSwitch]_vars

-----------------------------------------------------------------------------
(* build_proxy on the documents load_config may read: the registry file is a  *)
(* JSON document that is also edited by hand, so that an entry may carry a   *)
(* port and a route may name a container that has no entry                   *)

\* the port attribute of an entry: 0 is the attribute left out
EntryPorts == {0, 9000}

SeqsUpTo2(S) == {<<>>} \cup {<<x>> : x \in S} \cup {<<x, y>> : x \in S, y \in S}

EntriesOf(name) ==
    {[name |-> name, label |-> None, port |-> port, network |-> None] : port \in EntryPorts}

\* lists of at most two entries with different names
ContainerLists ==
    {cs \in SeqsUpTo2(UNION {EntriesOf(name) : name \in Names}) :
        \A i, j \in DOMAIN cs : cs[i].name = cs[j].name => i = j}

RouteLists == SeqsUpTo2([host_port : HostPorts, target : Names])

Documents ==
    {[DEFAULT_CONFIG EXCEPT !.containers = cs, !.routes = rs] :
        cs \in ContainerLists, rs \in RouteLists}

InitGenerate ==
    /\ fileExists = TRUE
    /\ file \in Documents
    /\ proxy = AbsentProxy
    /\ image = NoImage
    /\ networks = {}
    /\ written = Whole
    /\ procs = NoProcs
    /\ switched = [p \in HostPorts |-> None]
    /\ switchedOk = [p \in HostPorts |-> None]

Build ==
    \E env \in Outcomes :
        /\ Commit(build_proxy(World, env))
        /\ UNCHANGED <<switched, switchedOk>>

NextGenerate == Build

SpecGenerate == InitGenerate /\ [][NextGenerate]_vars

-----------------------------------------------------------------------------
(* One process that calls the store more than once: load_config, the changes *)
(* the registry operations make in place to the Model they loaded, and       *)
(* save_config, in any order                                                 *)

Restrict(document, fields) == [f \in fields |-> document[f]]

\* the documents the process may find: the file is also edited by hand, and a
\* document may lack containers or routes
StoredDocuments ==
    {Restrict([DEFAULT_CONFIG EXCEPT !.containers = cs, !.routes = rs],
              {"proxy_name", "network"} \cup fields) :
        cs \in {<<>>, <<new_entry("c1", None, 0, None)>>},
        rs \in {<<>>, <<[host_port |-> DEFAULT_PORT, target |-> "c1"]>>},
        fields \in SUBSET {"containers", "routes"}}

\* The entries are registered without attributes, so that an update in place
\* of an entry changes nothing.
\* defaults: the lists DEFAULT_CONFIG holds in this process; config: the Model
\* the process holds, if held; shared: the lists of config that are the list
\* objects of DEFAULT_CONFIG
InitLoad ==
    /\ fileExists \in BOOLEAN
    /\ file \in IF fileExists THEN StoredDocuments ELSE {DEFAULT_CONFIG}
    /\ proxy = AbsentProxy
    /\ image = NoImage
    /\ networks = {}
    /\ written = Whole
    /\ procs = [p \in {"main"} |->
                    [defaults |-> DEFAULT_CONFIG, config |-> DEFAULT_CONFIG,
                     held |-> FALSE, shared |-> {}]]
    /\ switched = [p \in HostPorts |-> None]
    /\ switchedOk = [p \in HostPorts |-> None]

\* a change made in place to a list of the Model shows in DEFAULT_CONFIG when the
\* list is shared with it
InPlace(pr, config) ==
    [pr EXCEPT
        !.config = config,
        !.defaults = [f \in DOMAIN @ |-> IF f \in pr.shared THEN config[f] ELSE @[f]]]

\* config = load_config()
LoadConfig ==
    \E p \in DOMAIN procs :
        /\ procs' = [procs EXCEPT ![p] =
                [@ EXCEPT !.config = load_config_from(procs[p].defaults, World),
                          !.held = TRUE,
                          !.shared = IF fileExists THEN {} ELSE {"containers", "routes"}]]
        /\ UNCHANGED <<fileExists, file, proxy, image, networks, written,
                       switched, switchedOk>>

\* add_container: the entry updated in place or appended to config["containers"]
UpsertInPlace ==
    \E p \in DOMAIN procs, container_name \in Names :
        /\ procs[p].held
        /\ procs' = [procs EXCEPT ![p] =
                InPlace(@, upsert_container(procs[p].config, container_name, None, 0, None))]
        /\ UNCHANGED <<fileExists, file, proxy, image, networks, written,
                       switched, switchedOk>>

\* switch_target: the route retargeted in place or appended to config["routes"]
SetRouteInPlace ==
    \E p \in DOMAIN procs, identifier \in Identifiers :
        LET config == procs[p].config
            container == find_container(config, identifier)
        IN  /\ procs[p].held
            /\ container # 0
            /\ procs' = [procs EXCEPT ![p] =
                    InPlace(@, set_route(config, DEFAULT_PORT,
                                         config.containers[container].name))]
            /\ UNCHANGED <<fileExists, file, proxy, image, networks, written,
                           switched, switchedOk>>

\* remove_container: config["containers"] and config["routes"] bound to new lists
RebindLists ==
    \E p \in DOMAIN procs, identifier \in Identifiers :
        LET config == procs[p].config
            container == find_container(config, identifier)
        IN  /\ procs[p].held
            /\ container # 0
            /\ procs' = [procs EXCEPT ![p] =
                    [@ EXCEPT
                        !.config =
                            [config EXCEPT
                                !.containers =
                                    without_container(@, config.containers[container].name),
                                !.routes =
                                    without_routes_to(@, config.containers[container].name)],
                        !.shared = {}]]
            /\ UNCHANGED <<fileExists, file, proxy, image, networks, written,
                           switched, switchedOk>>

\* save_config(config)
SaveConfig ==
    \E p \in DOMAIN procs :
        /\ procs[p].held
        /\ Commit(Result(save_config(World, procs[p].config), TRUE))
        /\ UNCHANGED <<switched, switchedOk>>

NextLoad == LoadConfig \/ UpsertInPlace \/ SetRouteInPlace \/ RebindLists \/ SaveConfig

SpecLoad == InitLoad /\ [][NextLoad]_vars

-----------------------------------------------------------------------------
(* Invocations of the add command that run at the same time on one registry  *)
(* file.  save_config is open(CONFIG_FILE, "w"), which truncates the file,   *)
(* and json.dump into a buffered file object: the documents of the model are *)
(* shorter than the buffer, so that their text reaches the disk in one write *)
(* from offset 0 when the file is closed.                                    *)

Invocations == {"A", "B"}

RECURSIVE Sum(_)
Sum(lens) == IF lens = <<>> THEN 0 ELSE Head(lens) + Sum(Tail(lens))

RECURSIVE Digits(_)
Digits(n) == IF n < 10 THEN 1 ELSE 1 + Digits(n \div 10)

\* the length of the text json.dump(config, f, indent=2) writes: a string in
\* quotes; a member "key": value; an array or object at depth d, which is [] or
\* {} when empty and else holds each item on a line of its own, indented by
\* 2 * (d + 1), with commas between the items and the closing bracket indented
\* by 2 * d
Str(string) == Len(string) + 2
Member(key, len) == Str(key) + 2 + len
Block(lens, d) ==
    IF lens = <<>> THEN 2
    ELSE 1 + Sum([i \in DOMAIN lens |-> 1 + 2 * (d + 1) + lens[i]])
           + (Len(lens) - 1) + 1 + 2 * d + 1

EntryLen(c) ==
    Block(<<Member("name", Str(c.name))>>
            \o (IF c.label # None THEN <<Member("label", Str(c.label))>> ELSE <<>>)
            \o (IF c.port # 0 THEN <<Member("port", Digits(c.port))>> ELSE <<>>)
            \o (IF c.network # None THEN <<Member("network", Str(c.network))>> ELSE <<>>),
          2)

RouteLen(r) ==
    Block(<<Member("host_port", Digits(r.host_port)), Member("target", Str(r.target))>>, 2)

TextLen(config) ==
    Block(<<Member("containers",
                   Block([i \in DOMAIN config.containers |-> EntryLen(config.containers[i])], 1)),
            Member("routes",
                   Block([i \in DOMAIN config.routes |-> RouteLen(config.routes[i])], 1)),
            Member("proxy_name", Str(config.proxy_name)),
            Member("network", Str(config.network))>>,
          0)

\* the number of characters CONFIG_FILE holds
OnDisk == IF written.empty THEN 0 ELSE TextLen(file) + written.tail

\* json.load raises JSONDecodeError on an empty file and on a document that is
\* followed by the rest of a longer one
Decodable == written = Whole

Idle == [pc |-> "idle", config |-> DEFAULT_CONFIG]

InitStore ==
    /\ fileExists = FALSE
    /\ file = DEFAULT_CONFIG
    /\ proxy = AbsentProxy
    /\ image = NoImage
    /\ networks = {}
    /\ written = Whole
    /\ procs = [p \in Invocations |-> Idle]
    /\ switched = [p \in HostPorts |-> None]
    /\ switchedOk = [p \in HostPorts |-> None]

\* add_container up to its save_config: load_config, which fails when the file
\* exists and cannot be decoded, and the entry updated or appended
AddLoad(p) ==
    \E container_name \in Names :
    \E label \in (Labels \ {container_name}) \cup {None} :
        /\ procs[p].pc = "idle"
        /\ procs' = [procs EXCEPT ![p] =
                IF fileExists /\ ~Decodable
                THEN [pc |-> "failed", config |-> DEFAULT_CONFIG]
                ELSE [pc |-> "loaded",
                      config |-> upsert_container(load_config(World), container_name,
                                                  label, 0, None)]]
        /\ UNCHANGED <<fileExists, file, proxy, image, networks, written,
                       switched, switchedOk>>

\* save_config: open(CONFIG_FILE, "w") creates the file or truncates it
SaveOpen(p) ==
    /\ procs[p].pc = "loaded"
    /\ fileExists' = TRUE
    /\ written' = [empty |-> TRUE, tail |-> 0]
    /\ procs' = [procs EXCEPT ![p].pc = "opened"]
    /\ UNCHANGED <<file, proxy, image, networks, switched, switchedOk>>

\* save_config: the file is closed and the text of config is written from offset
\* 0 over what the file holds by then; the command ends
SaveClose(p) ==
    /\ procs[p].pc = "opened"
    /\ file' = procs[p].config
    /\ written' =
            [empty |-> FALSE,
             tail |-> IF OnDisk > TextLen(procs[p].config)
                      THEN OnDisk - TextLen(procs[p].config) ELSE 0]
    /\ procs' = [procs EXCEPT ![p] = Idle]
    /\ UNCHANGED <<fileExists, proxy, image, networks, switched, switchedOk>>

\* the invocation whose load_config raised ends
Exit(p) ==
    /\ procs[p].pc = "failed"
    /\ procs' = [procs EXCEPT ![p] = Idle]
    /\ UNCHANGED <<fileExists, file, proxy, image, networks, written,
                   switched, switchedOk>>

NextStore ==
    \E p \in Invocations : AddLoad(p) \/ SaveOpen(p) \/ SaveClose(p) \/ Exit(p)

SpecStore == InitStore /\ [][NextStore]_vars

-----------------------------------------------------------------------------
(* start and stop on Models whose two containers are registered on networks  *)
(* of their own (add c1 --network ..., add c2 --network ..., switch ...)     *)

SecondaryNetworks == OtherNetworks \cup {"db-net"}

AttachDocuments ==
    {[DEFAULT_CONFIG EXCEPT
        !.containers = <<new_entry("c1", None, 0, n1), new_entry("c2", None, 0, n2)>>,
        !.routes = <<[host_port |-> DEFAULT_PORT, target |-> target]>>] :
        n1 \in SecondaryNetworks \cup {None}, n2 \in SecondaryNetworks \cup {None},
        target \in Names}

InitAttach ==
    /\ fileExists = TRUE
    /\ file \in AttachDocuments
    /\ proxy = AbsentProxy
    /\ image = NoImage
    /\ networks \in SUBSET ({DEFAULT_CONFIG.network} \cup SecondaryNetworks)
    /\ written = Whole
    /\ procs = NoProcs
    /\ switched = [p \in HostPorts |-> None]
    /\ switchedOk = [p \in HostPorts |-> None]

NextAttach == Start \/ Stop

SpecAttach == InitAttach /\ [][NextAttach]_vars

-----------------------------------------------------------------------------
(* Vocabulary of the properties.  A property of a command is stated on the   *)
(* command applied to the current state, for every argument and every       *)
(* outcome of the runtime: the actions commit exactly that result.          *)

Model == load_config(World)
Routes == Model.routes
Containers == Model.containers

RouteOn(config, p) == {i \in DOMAIN config.routes : config.routes[i].host_port = p}
EntriesNamed(config, n) == {i \in DOMAIN config.containers : config.containers[i].name = n}

\* the runtime calls that change the runtime, or try to
ChangeOps ==
    {"network_create", "image_build", "image_build_failed", "container_run",
     "network_connect", "network_connect_failed", "container_stop", "container_remove"}

Called(r, op) == \E i \in DOMAIN r.w.events : r.w.events[i].op = op

NoRuntimeChange(w0, r) ==
    /\ \A i \in DOMAIN r.w.events : r.w.events[i].op \notin ChangeOps
    /\ r.w.proxy = w0.proxy
    /\ r.w.image = w0.image
    /\ r.w.networks = w0.networks

ModelUnchanged(w0, r) == r.w.fileExists = w0.fileExists /\ r.w.file = w0.file

-----------------------------------------------------------------------------
(* C1: route uniqueness *)

\* C1 as amended (under SpecSwitch): the routes hold at most one entry per host
\* port, and a port has an entry exactly when some switch on it resolved a
\* container; the entry's target is the name the most recent such switch resolved,
\* whether or not the reload that followed it succeeded.
C1_RouteUniqueness ==
    \A p \in HostPorts :
        /\ Cardinality(RouteOn(Model, p)) <= 1
        /\ switched[p] = None => RouteOn(Model, p) = {}
        /\ switched[p] # None =>
                \E i \in RouteOn(Model, p) : Routes[i].target = switched[p]

\* C1 as claimed (under SpecSwitch): the entry's target is the name resolved by
\* the most recent switch on the port that returned success.
C1_AsClaimed ==
    \A p \in HostPorts :
        /\ Cardinality(RouteOn(Model, p)) <= 1
        /\ switchedOk[p] # None =>
                \E i \in RouteOn(Model, p) : Routes[i].target = switchedOk[p]

\* a switch to another container on a port that has a route retargets the entry
C1_Witness ==
    \E p \in HostPorts, identifier \in Identifiers, env \in Envs :
        LET r == switch_target(World, identifier, p, env)
        IN  /\ switched[p] # None
            /\ find_container(Model, identifier) # 0
            /\ Containers[find_container(Model, identifier)].name # switched[p]
            /\ Cardinality(RouteOn(r.w.file, p)) = 1
            /\ Len(r.w.file.routes) = Len(Routes)
            /\ \E i \in RouteOn(r.w.file, p) : r.w.file.routes[i].target # switched[p]

-----------------------------------------------------------------------------
(* C2: partial teardown *)

\* the configuration of a proxy that serves exactly the route
Applies(pr, route) ==
    /\ pr.state = "Running"
    /\ pr.ports = {route.host_port}
    /\ Len(pr.conf) = 1
    /\ pr.conf[1].listen = route.host_port
    /\ pr.conf[1].backend[1] = route.target

OtherRoute(p) == Routes[CHOOSE i \in DOMAIN Routes : Routes[i].host_port # p]

\* what stop_port(p) does to a Model of two routes and a Running proxy, but for
\* the state it leaves the proxy in
TwoRoutesTeardown(p, r) ==
    /\ r.w.fileExists
    /\ r.w.file = [Model EXCEPT !.routes = <<OtherRoute(p)>>]
    /\ Called(r, "container_stop")
    /\ Called(r, "container_remove")

LastRouteTeardown(r) ==
    /\ r.w.fileExists
    /\ r.w.file = [Model EXCEPT !.routes = <<>>]
    /\ r.w.proxy = AbsentProxy
    /\ ~Called(r, "image_build") /\ ~Called(r, "container_run")

\* C2 as amended: with the proxy Running and two routes in the Model,
\* stop_port(p) for one of them removes exactly that route from the persisted
\* Model and stops the proxy; when the image build of the reload succeeds it
\* ends with the proxy Running with exactly the other route applied, and when
\* the build fails it ends with no proxy container.  With a single route in
\* the Model, stop_port(p) leaves routes empty and ends with no proxy container.
C2_PartialTeardown ==
    \A p \in HostPorts, env \in Envs :
        LET r == stop_port(World, p, env)
        IN  RouteOn(Model, p) # {} =>
              /\ (Len(Routes) = 2 /\ proxy.state = "Running") =>
                    /\ TwoRoutesTeardown(p, r)
                    /\ env.buildOk => r.ret /\ Applies(r.w.proxy, OtherRoute(p))
                    /\ ~env.buildOk => ~r.ret /\ r.w.proxy = AbsentProxy
              /\ Len(Routes) = 1 => LastRouteTeardown(r)

\* C2 as claimed: removing one of two routes always ends with the proxy Running
\* with exactly the other route applied.
C2_AsClaimed ==
    \A p \in HostPorts, env \in Envs :
        LET r == stop_port(World, p, env)
        IN  RouteOn(Model, p) # {} =>
              /\ (Len(Routes) = 2 /\ proxy.state = "Running") =>
                    /\ TwoRoutesTeardown(p, r)
                    /\ Applies(r.w.proxy, OtherRoute(p))
              /\ Len(Routes) = 1 => LastRouteTeardown(r)

\* a Running proxy serving two routes of which stop_port removes one and
\* reloads the other
C2_Witness ==
    /\ proxy.state = "Running"
    /\ Len(Routes) = 2
    /\ Len(proxy.conf) = 2
    /\ \E p \in HostPorts, env \in Envs :
          LET r == stop_port(World, p, env)
          IN  r.ret /\ Len(r.w.file.routes) = 1 /\ Applies(r.w.proxy, OtherRoute(p))

-----------------------------------------------------------------------------
(* C3, C4: routes target registered containers; removal cascades *)

\* C3: in the persisted Model every route's target is the name of an entry of
\* containers, after any sequence of commands from the default empty Model.
C3_TargetsRegistered ==
    \A i \in DOMAIN Routes : EntriesNamed(Model, Routes[i].target) # {}

\* a removal that takes a route with it and leaves another route behind
C3_Witness ==
    \E identifier \in Identifiers :
        LET r == remove_container(World, identifier)
        IN  /\ r.ret
            /\ Len(Routes) = 2
            /\ Len(r.w.file.routes) = 1

\* C4: a successful remove_container(identifier) deletes the entry the identifier
\* resolves to and every route targeting that entry's name, and leaves the other
\* entries and the other routes as they were, in the same order.
C4_CascadingRemoval ==
    \A identifier \in Identifiers :
        LET r == remove_container(World, identifier)
            resolved == find_container(Model, identifier)
        IN  r.ret =>
              /\ resolved # 0
              /\ LET name == Containers[resolved].name
                      OtherEntry(c) == c.name # name
                      OtherTarget(x) == x.target # name
                  IN  /\ r.w.fileExists
                      /\ r.w.file.containers = SelectSeq(Containers, OtherEntry)
                      /\ r.w.file.routes = SelectSeq(Routes, OtherTarget)
                      /\ Len(r.w.file.containers) = Len(Containers) - 1
                      /\ r.w.file.proxy_name = Model.proxy_name
                      /\ r.w.file.network = Model.network

\* a removal by label: the entry and its route go, another entry and its route stay
C4_Witness ==
    \E identifier \in Labels :
        LET r == remove_container(World, identifier)
            resolved == find_container(Model, identifier)
        IN  /\ r.ret
            /\ Containers[resolved].name # identifier
            /\ Len(Containers) = 2
            /\ Len(Routes) = 2
            /\ Len(r.w.file.routes) = 1
            /\ Len(r.w.file.containers) = 1

-----------------------------------------------------------------------------
(* C5: the routes are sorted *)

\* C5: after every command the persisted routes are sorted strictly ascending
\* by host_port.
C5_RoutesSorted ==
    \A i, j \in DOMAIN Routes : i < j => Routes[i].host_port < Routes[j].host_port

\* a switch that appends a route on a port below the ports already routed
C5_Witness ==
    \E identifier \in Identifiers, p \in HostPorts, env \in Envs :
        LET r == switch_target(World, identifier, p, env)
        IN  /\ Routes # <<>>
            /\ p < Routes[1].host_port
            /\ find_container(Model, identifier) # 0
            /\ Len(r.w.file.routes) = Len(Routes) + 1
            /\ r.w.file.routes[1].host_port = p

-----------------------------------------------------------------------------
(* C6: container names are unique *)

NamesOf(containers) == [i \in DOMAIN containers |-> containers[i].name]

\* C6: no two entries of containers have the same name, and add_container on a
\* registered name updates that entry in place: the entries keep their number,
\* their names and their order, and the other entries are unchanged.
C6_UniqueNames ==
    /\ \A i, j \in DOMAIN Containers : Containers[i].name = Containers[j].name => i = j
    /\ \A container_name \in Names, label \in Labels \cup {None},
          port \in InternalPorts \cup {0}, network \in OtherNetworks \cup {None},
          detected \in OtherNetworks \cup {None} :
            LET r == add_container(World, container_name, label, port, network, detected)
            IN  EntriesNamed(Model, container_name) # {} =>
                  /\ NamesOf(r.w.file.containers) = NamesOf(Containers)
                  /\ \A i \in DOMAIN Containers :
                        Containers[i].name # container_name =>
                            r.w.file.containers[i] = Containers[i]

\* an add_container on a registered name that changes the entry
C6_Witness ==
    \E container_name \in Names, label \in Labels \cup {None},
       network \in OtherNetworks \cup {None} :
        LET r == add_container(World, container_name, label, 0, network, None)
        IN  /\ EntriesNamed(Model, container_name) # {}
            /\ Len(Containers) = 2
            /\ r.w.file.containers # Containers
            /\ Len(r.w.file.containers) = 2

-----------------------------------------------------------------------------
(* C7, C8: start is idempotent, and refuses an incomplete Model *)

\* the world a second command of the same kind finds
After(r) == [r.w EXCEPT !.events = <<>>]

\* C7 as amended: when start_proxy is called twice in succession and the proxy
\* container is present after the first call, the second call makes no runtime
\* change (no network created, no image built, no container run or connected);
\* it reports success when the Model has a container and a route, and fails with
\* ConfigIncomplete when it has not.
C7_StartIdempotent ==
    \A env1 \in Envs, env2 \in Envs :
        LET r1 == start_proxy(World, env1)
            r2 == start_proxy(After(r1), env2)
        IN  r1.w.proxy.state = "Running" =>
              /\ NoRuntimeChange(After(r1), r2)
              /\ ModelUnchanged(After(r1), r2)
              /\ r2.ret <=> ~config_incomplete(Model)

\* C7 as claimed: the second call makes no runtime change and reports success.
C7_AsClaimed ==
    \A env1 \in Envs, env2 \in Envs :
        LET r1 == start_proxy(World, env1)
            r2 == start_proxy(After(r1), env2)
        IN  r1.w.proxy.state = "Running" =>
              /\ NoRuntimeChange(After(r1), r2)
              /\ r2.ret

\* a first start that creates a network and runs the proxy, and a second start
\* that only looks the proxy up
C7_Witness ==
    \E env1 \in Envs, env2 \in Envs :
        LET r1 == start_proxy(World, env1)
            r2 == start_proxy(After(r1), env2)
        IN  /\ proxy.state = "Absent"
            /\ r1.ret /\ Called(r1, "network_create") /\ Called(r1, "container_run")
            /\ r2.ret /\ r2.w.events = <<Event("container_get", Model.proxy_name)>>

\* C8: start_proxy on a Model with no containers or no routes returns failure
\* and makes no runtime change: no network is created, no image is built, no
\* container is created, and the Model is not written.
C8_ConfigIncomplete ==
    \A env \in Envs :
        LET r == start_proxy(World, env)
        IN  config_incomplete(Model) =>
              /\ ~r.ret
              /\ NoRuntimeChange(World, r)
              /\ ModelUnchanged(World, r)

\* a start refused for want of routes, with a network of the Model still missing
C8_Witness ==
    /\ Containers # <<>>
    /\ Routes = <<>>
    /\ proxy.state = "Absent"
    /\ referenced_networks(Model) \ networks # {}
    /\ \E env \in Envs : ~start_proxy(World, env).ret

-----------------------------------------------------------------------------
(* C9, C10: reload fails fast; a failed build leaves no proxy *)

\* C9: reload_proxy on a Model with no containers or no routes returns failure
\* before it stops anything: a Running proxy is still Running and unchanged.
C9_ReloadFailsFast ==
    \A env \in Envs :
        LET r == reload_proxy(World, env)
        IN  config_incomplete(Model) =>
              /\ ~r.ret
              /\ r.w.proxy = proxy
              /\ NoRuntimeChange(World, r)
              /\ ModelUnchanged(World, r)

\* a reload refused while the proxy runs
C9_Witness ==
    /\ config_incomplete(Model)
    /\ proxy.state = "Running"
    /\ \E env \in Envs :
          LET r == reload_proxy(World, env)
          IN  ~r.ret /\ r.w.proxy.state = "Running"

\* a start that reached the build and failed: no container run, no proxy, the
\* image as it was
BuildAborted(w0, r) ==
    /\ ~r.ret
    /\ Called(r, "image_build_failed")
    /\ ~Called(r, "container_run")
    /\ r.w.proxy = AbsentProxy
    /\ r.w.image = w0.image

\* C10: when the image build fails, start_proxy returns failure without running
\* a container and the proxy is Absent afterwards; there is no rollback: in
\* reload_proxy, called directly or by switch_target or stop_port, a proxy that
\* was Running before is Absent after.
C10_BuildFailure ==
    \A env \in Envs :
        ~env.buildOk =>
          /\ (~config_incomplete(Model) /\ proxy.state = "Absent") =>
                BuildAborted(World, start_proxy(World, env))
          /\ (~config_incomplete(Model) /\ proxy.state = "Running") =>
                /\ BuildAborted(World, reload_proxy(World, env))
                /\ Called(reload_proxy(World, env), "container_remove")
          /\ \A identifier \in Identifiers, p \in HostPorts :
                (find_container(Model, identifier) # 0 /\ proxy.state = "Running") =>
                    BuildAborted(World, switch_target(World, identifier, p, env))
          /\ \A p \in HostPorts :
                (RouteOn(Model, p) # {} /\ Len(Routes) > 1 /\ proxy.state = "Running") =>
                    BuildAborted(World, stop_port(World, p, env))

\* a switch on a Running proxy whose rebuild fails
C10_Witness ==
    /\ proxy.state = "Running"
    /\ \E identifier \in Identifiers, p \in HostPorts, env \in Envs :
          LET r == switch_target(World, identifier, p, env)
          IN  /\ ~env.buildOk
              /\ find_container(Model, identifier) # 0
              /\ ~r.ret
              /\ Called(r, "container_stop")
              /\ r.w.proxy = AbsentProxy

-----------------------------------------------------------------------------
(* C11, C12: NotFound aborts without effect; the registry operations do not  *)
(* reconcile                                                                *)

\* no entry of containers has the identifier as its name or as its label
Unregistered(identifier) ==
    \A i \in DOMAIN Containers :
        Containers[i].name # identifier /\ Containers[i].label # identifier

\* the command failed and left the persisted Model and the runtime as they were
AbortedWithoutEffect(r) ==
    /\ ~r.ret
    /\ ModelUnchanged(World, r)
    /\ NoRuntimeChange(World, r)

\* C11: switch_target with an identifier that is no container's name or label,
\* remove_container with such an identifier, and stop_port with a host port that
\* has no route each return failure and leave the persisted Model and the runtime
\* (proxy container, networks, image) unchanged.
C11_NotFoundAborts ==
    /\ \A identifier \in Identifiers :
          Unregistered(identifier) =>
            /\ AbortedWithoutEffect(remove_container(World, identifier))
            /\ \A p \in SwitchPorts \cup HostPorts, env \in Envs :
                  AbortedWithoutEffect(switch_target(World, identifier, p, env))
    /\ \A p \in HostPorts, env \in Envs :
          RouteOn(Model, p) = {} => AbortedWithoutEffect(stop_port(World, p, env))

\* a Running proxy and a complete Model, with an identifier that is not
\* registered and a host port that is not routed
C11_Witness ==
    /\ proxy.state = "Running"
    /\ ~config_incomplete(Model)
    /\ \E identifier \in Identifiers, p \in HostPorts, env \in Envs :
          /\ Unregistered(identifier)
          /\ RouteOn(Model, p) = {}
          /\ ~switch_target(World, identifier, p, env).ret
          /\ ~remove_container(World, identifier).ret
          /\ ~stop_port(World, p, env).ret

\* C12: add_container and remove_container change only the persisted Model: the
\* proxy container, the set of networks and the proxy image are unchanged by
\* every call to either of them, and neither makes a runtime call that changes
\* the runtime.
C12_NoReconciliation ==
    /\ \A container_name \in Names, label \in Labels \cup {None},
          port \in InternalPorts \cup {0}, network \in OtherNetworks \cup {None},
          detected \in OtherNetworks \cup {None} :
            NoRuntimeChange(World,
                add_container(World, container_name, label, port, network, detected))
    /\ \A identifier \in Identifiers :
            NoRuntimeChange(World, remove_container(World, identifier))

\* with the proxy Running: a removal that takes a served route out of the Model,
\* and an add that registers a container on a network the runtime does not have
C12_Witness ==
    /\ proxy.state = "Running"
    /\ \E identifier \in Identifiers :
          LET r == remove_container(World, identifier)
          IN  /\ r.ret
              /\ Len(r.w.file.routes) < Len(Routes)
              /\ r.w.proxy.conf = proxy.conf /\ proxy.conf # <<>>
    /\ \E container_name \in Names, network \in OtherNetworks :
          LET r == add_container(World, container_name, None, 0, network, None)
          IN  /\ network \notin networks
              /\ EntriesNamed(Model, container_name) = {}
              /\ Len(r.w.file.containers) = Len(Containers) + 1

-----------------------------------------------------------------------------
(* C13: a successful switch takes effect immediately *)

PortsOf(routes) == {routes[i].host_port : i \in DOMAIN routes}

\* the proxy container runs the configuration generated from the Model
BuiltFrom(pr, config) ==
    /\ pr.state = "Running"
    /\ pr.conf = generate_nginx_config(config)
    /\ pr.ports = PortsOf(config.routes)

Forwards(pr, host_port, name) ==
    \E i \in DOMAIN pr.conf :
        pr.conf[i].listen = host_port /\ pr.conf[i].backend[1] = name

\* C13: whenever switch_target returns success, whether the proxy was Absent or
\* Running before, a proxy container exists that was built and run by that call
\* from the Model as that switch persisted it: it publishes exactly the host ports
\* of the Model's routes, and the switched port forwards to the new target.
C13_SwitchTakesEffect ==
    \A identifier \in Identifiers, host_port \in SwitchPorts, env \in Envs :
        LET r == switch_target(World, identifier, host_port, env)
            port == IF host_port = 0 THEN DEFAULT_PORT ELSE host_port
        IN  r.ret =>
              /\ find_container(Model, identifier) # 0
              /\ r.w.fileExists
              /\ Called(r, "image_build") /\ Called(r, "container_run")
              /\ BuiltFrom(r.w.proxy, r.w.file)
              /\ Len(r.w.proxy.conf) = Len(r.w.file.routes)
              /\ Forwards(r.w.proxy, port, Containers[find_container(Model, identifier)].name)

\* a successful switch on a Running proxy of two routes that retargets a port the
\* proxy serves
C13_Witness ==
    /\ Len(Routes) = 2
    /\ \E identifier \in Identifiers, host_port \in HostPorts, env \in Envs :
          LET r == switch_target(World, identifier, host_port, env)
          IN  /\ r.ret
              /\ proxy.state = "Running"
              /\ Forwards(proxy, host_port, Routes[1].target)
              /\ ~Forwards(r.w.proxy, host_port, Routes[1].target)
              /\ r.w.proxy.ports = PortsOf(Routes)

-----------------------------------------------------------------------------
(* C14: stop_proxy *)

\* C14: the proxy container is either Absent or Running; stop_proxy on a
\* container that exists stops it and then removes it, so that no container of
\* that name exists after the call; on none it reports "not running" (it returns
\* False, no error) and changes nothing in the runtime or the Model.
C14_StopRemoves ==
    LET r == stop_proxy(World)
        proxy_name == get_proxy_name(Model)
    IN  /\ proxy.state \in {"Absent", "Running"}
        /\ ModelUnchanged(World, r)
        /\ r.w.image = image /\ r.w.networks = networks
        /\ r.w.proxy = AbsentProxy
        /\ proxy.state = "Running" =>
              /\ r.ret
              /\ r.w.events = <<Event("container_get", proxy_name),
                                Event("container_stop", proxy_name),
                                Event("container_remove", proxy_name)>>
        /\ proxy.state = "Absent" =>
              /\ ~r.ret
              /\ NoRuntimeChange(World, r)

\* a Running proxy attached to a second network, which stop_proxy removes
C14_Witness ==
    /\ proxy.state = "Running"
    /\ Cardinality(proxy.nets) = 2
    /\ stop_proxy(World).ret
    /\ stop_proxy(World).w.proxy.state = "Absent"

-----------------------------------------------------------------------------
(* C15: the generated configuration *)

Resolves(route) == EntriesNamed(Model, route.target) # {}

\* the routes of the Model whose target has an entry, in their order
ResolvedRoutes == SelectSeq(Routes, Resolves)

EntryOf(route) == Containers[First(EntriesNamed(Model, route.target))]

\* C15 (under SpecGenerate): generate_nginx_config emits one server block per
\* route whose target is the name of an entry, in the order of the routes; the
\* block listens on the route's host_port and forwards to target:internal_port,
\* where internal_port is the entry's port, or 8000 when the entry has none; a
\* route whose target has no entry yields no server block.  The image that
\* build_proxy builds holds that configuration.
C15_ServerBlocks ==
    LET servers == generate_nginx_config(Model)
    IN  /\ Len(servers) = Len(ResolvedRoutes)
        /\ \A k \in DOMAIN ResolvedRoutes :
              LET route == ResolvedRoutes[k]
                  internal_port ==
                      IF EntryOf(route).port # 0 THEN EntryOf(route).port ELSE DEFAULT_PORT
              IN  /\ servers[k].listen = route.host_port
                  /\ servers[k].backend = <<route.target, internal_port>>
        /\ image.built => image.conf = servers

\* an image built from a Model of two routes, of which one names an entry with a
\* port and the other names no entry
C15_Witness ==
    /\ image.built
    /\ Len(Routes) = 2
    /\ Len(image.conf) = 1
    /\ \E i \in DOMAIN Routes : ~Resolves(Routes[i])
    /\ image.conf[1].backend[2] # DEFAULT_PORT

-----------------------------------------------------------------------------
(* C16: load_config *)

\* what a call of load_config in process p returns now
Loaded(p) == load_config_from(procs[p].defaults, World)

\* on a file that exists: the document, with an empty list for each of containers
\* and routes that it lacks
BackFilled(config) ==
    /\ {"containers", "routes"} \subseteq DOMAIN config
    /\ \A f \in DOMAIN file : config[f] = file[f]
    /\ \A f \in {"containers", "routes"} \ DOMAIN file : config[f] = <<>>

\* C16 as claimed (under SpecLoad): on an absent registry file every call of
\* load_config returns the default Model with empty containers, empty routes,
\* proxy_name "proxy-manager" and network "proxy-net", also after a Model that an
\* earlier call returned was changed in the same process; on a present file,
\* missing containers and routes are back-filled with empty lists.
C16_AsClaimed ==
    \A p \in DOMAIN procs :
        /\ ~fileExists =>
              Loaded(p) = [containers |-> <<>>, routes |-> <<>>,
                           proxy_name |-> "proxy-manager", network |-> "proxy-net"]
        /\ fileExists => BackFilled(Loaded(p))

\* what holds of load_config (under SpecLoad): on an absent file the first call
\* in a process returns the default Model, and every call returns the lists that
\* the process's DEFAULT_CONFIG holds at the time; on a present file the document
\* is back-filled.
C16_SharedDefault ==
    \A p \in DOMAIN procs :
        /\ (~fileExists /\ ~procs[p].held) => Loaded(p) = DEFAULT_CONFIG
        /\ ~fileExists => Loaded(p) = procs[p].defaults
        /\ fileExists => BackFilled(Loaded(p))

\* on an absent file: a Model that was loaded and then given an entry in place,
\* which a second load returns
C16_Witness ==
    \E p \in DOMAIN procs :
        /\ ~fileExists
        /\ procs[p].held
        /\ procs[p].config.containers # <<>>
        /\ Loaded(p).containers = procs[p].config.containers

-----------------------------------------------------------------------------
(* C17: save_config and a concurrent load_config *)

\* C17 as claimed (under SpecStore): a load_config that runs while another
\* invocation is in save_config finds the whole previous document or the whole
\* new one, never an empty or partly written file: no load_config fails to decode
\* the file.
C17_AsClaimed ==
    \A p \in DOMAIN procs : procs[p].pc # "failed"

\* an invocation that has opened the file and not yet written it, and another
\* whose load_config read the file in that state
C17_Witness ==
    \E p, q \in DOMAIN procs :
        /\ procs[p].pc = "opened"
        /\ procs[q].pc = "failed"
        /\ written.empty

-----------------------------------------------------------------------------
(* C18: a network that cannot be connected does not fail the start *)

\* the calls of net.connect on the network, failed or not
Attempts(r, network) ==
    {i \in DOMAIN r.w.events :
        /\ r.w.events[i].op \in {"network_connect", "network_connect_failed"}
        /\ r.w.events[i].arg = network}

\* C18 (under SpecAttach): in a start_proxy that runs a new proxy container,
\* whichever of the non-default referenced networks fail to connect, each of
\* them is attempted once, the proxy is connected to those that did not fail,
\* and start returns success with the proxy Running on its default network with
\* the host ports of the routes published.
C18_AttachNotFatal ==
    \A env \in Envs :
        LET r == start_proxy(World, env)
            default_network == get_network_name(Model)
            secondary == referenced_networks(Model) \ {default_network}
        IN  Called(r, "container_run") =>
              /\ r.ret
              /\ r.w.proxy.state = "Running"
              /\ r.w.proxy.ports = PortsOf(Routes)
              /\ \A network \in secondary : Cardinality(Attempts(r, network)) = 1
              /\ r.w.proxy.nets = {default_network} \cup (secondary \ env.connectFail)

\* a start in which the first of two secondary networks fails to connect and
\* the second is connected after it
C18_Witness ==
    \E env \in Envs :
        LET r == start_proxy(World, env)
        IN  /\ r.ret
            /\ Cardinality(r.w.proxy.nets) = 2
            /\ \E i, j \in DOMAIN r.w.events :
                  /\ i < j
                  /\ r.w.events[i].op = "network_connect_failed"
                  /\ r.w.events[j].op = "network_connect"

-----------------------------------------------------------------------------
(* C19: config determinism *)

-----------------------------------------------------------------------------
(* C20: the networks are ensured before they are needed *)

Positions(r, ops) == {i \in DOMAIN r.w.events : r.w.events[i].op \in ops}

Creations(r, network) ==
    {i \in DOMAIN r.w.events :
        r.w.events[i].op = "network_create" /\ r.w.events[i].arg = network}

\* the runtime calls of start_proxy that come after the networks
UsesOfNetworks ==
    {"container_get", "image_build", "image_build_failed", "container_run",
     "network_connect", "network_connect_failed"}

\* C20 (under SpecAttach): in every start_proxy on a Model that has a container
\* and a route, the default network and every network named by an entry exist
\* after the call; each is created once when it was absent and not at all when it
\* was present, and no other network is created; every creation comes before
\* the lookup of the proxy container, the image build, the container run and
\* the connections, so that a connection fails only where the runtime refuses it.
C20_NetworksEnsured ==
    \A env \in Envs :
        LET r == start_proxy(World, env)
            default_network == get_network_name(Model)
            needed == referenced_networks(Model)
        IN  ~config_incomplete(Model) =>
              /\ r.w.networks = networks \cup needed
              /\ \A network \in needed :
                    Cardinality(Creations(r, network)) = IF network \in networks THEN 0 ELSE 1
              /\ \A network \in AllNetworks \cup SecondaryNetworks :
                    network \notin needed => Creations(r, network) = {}
              /\ Positions(r, {"container_get"}) # {}
              /\ \A i \in Positions(r, {"network_create"}), j \in Positions(r, UsesOfNetworks) :
                    i < j
              /\ Called(r, "container_run") =>
                    r.w.proxy.nets = needed \ env.connectFail

\* a start that creates the default network and two others, then runs the proxy
\* and connects it to both
C20_Witness ==
    \E env \in Envs :
        LET r == start_proxy(World, env)
        IN  /\ networks = {}
            /\ r.ret
            /\ Cardinality(Positions(r, {"network_create"})) = 3
            /\ Cardinality(r.w.proxy.nets) = 3

-----------------------------------------------------------------------------
(* C21: last writer wins *)

NoSaveInProgress == \A p \in DOMAIN procs : procs[p].pc # "opened"

\* C21 as claimed (under SpecStore): when invocations interleave their load,
\* change and save on one registry file, the file they leave is the whole
\* document of the save that ran last, so that the change of another invocation
\* may be lost; every persisted document is one writer's complete Model: with no
\* save in progress, the file holds the whole text of one document.
C21_AsClaimed ==
    (fileExists /\ NoSaveInProgress) => Decodable

\* the part of C21 that holds: a save about to end whose document lacks an entry
\* that another invocation has persisted meanwhile, and whose text is long enough
\* to replace the file whole
C21_LostUpdate ==
    \E p \in DOMAIN procs :
        /\ procs[p].pc = "opened"
        /\ Decodable
        /\ TextLen(procs[p].config) >= OnDisk
        /\ \E i \in DOMAIN file.containers :
              EntriesNamed(procs[p].config, file.containers[i].name) = {}

\* two invocations that have both ended their save, the longer text first: the
\* file holds the shorter document followed by the end of the longer one
C21_Witness ==
    /\ fileExists
    /\ \A p \in DOMAIN procs : procs[p].pc = "idle"
    /\ written.tail > 0
    /\ Len(file.containers) = 1

-----------------------------------------------------------------------------
(* C22: lookup by name *)

\* C22 as claimed: in every Model reached through add_container, also when
\* another entry has the label n, an identifier n that is the name of a
\* registered container resolves to that container: switch_target(n, p) sets
\* the route on p to the target n, and remove_container(n) removes the entry
\* named n.
C22_AsClaimed ==
    \A n \in Names :
        EntriesNamed(Model, n) # {} =>
          /\ Containers[find_container(Model, n)].name = n
          /\ \A host_port \in SwitchPorts, env \in Envs :
                LET r == switch_target(World, n, host_port, env)
                    port == IF host_port = 0 THEN DEFAULT_PORT ELSE host_port
                IN  \E i \in RouteOn(r.w.file, port) : r.w.file.routes[i].target = n
          /\ LET r == remove_container(World, n)
              IN  r.ret /\ EntriesNamed(r.w.file, n) = {}

\* what holds of the lookup: an identifier that is a name or a label of an entry
\* resolves to the first entry, in the order of registration, that has it as
\* its name or as its label
C22_FirstMatch ==
    \A identifier \in Identifiers :
        LET found == find_container(Model, identifier)
            Matches(i) ==
                Containers[i].name = identifier \/ Containers[i].label = identifier
        IN  IF \E i \in DOMAIN Containers : Matches(i)
            THEN /\ found \in DOMAIN Containers
                 /\ Matches(found)
                 /\ \A i \in DOMAIN Containers : i < found => ~Matches(i)
            ELSE found = 0

\* a container registered after another that bears its name as label: the
\* identifier resolves to the other, which a switch targets and a remove removes
C22_Witness ==
    \E n \in Names :
        LET found == find_container(Model, n)
            r == remove_container(World, n)
        IN  /\ EntriesNamed(Model, n) # {}
            /\ found # 0
            /\ Containers[found].name # n
            /\ Containers[found].label = n
            /\ r.ret
            /\ EntriesNamed(r.w.file, n) # {}
            /\ \E env \in Envs :
                  LET t == switch_target(World, n, 0, env)
                  IN  \E i \in RouteOn(t.w.file, DEFAULT_PORT) :
                        t.w.file.routes[i].target = Containers[found].name

-----------------------------------------------------------------------------
(* The order in which a command iterates the networks *)

Left(r) == [r.w EXCEPT !.events = <<>>]

\* the state a command leaves and its result do not depend on the order in which
\* start_proxy iterates its set of networks
OrderImmaterial ==
    \A env \in Envs :
        \E out \in Outcomes :
            /\ out.buildOk = env.buildOk /\ out.connectFail = env.connectFail
            /\ Left(start_proxy(World, env)) = Left(start_proxy(World, out))
            /\ start_proxy(World, env).ret = start_proxy(World, out).ret
            /\ Left(restart_proxy(World, env)) = Left(restart_proxy(World, out))
            /\ Left(reload_proxy(World, env)) = Left(reload_proxy(World, out))
            /\ \A p \in HostPorts :
                    Left(stop_port(World, p, env)) = Left(stop_port(World, p, out))
            /\ \A identifier \in Identifiers, p \in SwitchPorts :
                    Left(switch_target(World, identifier, p, env))
                        = Left(switch_target(World, identifier, p, out))

====
